---- MODULE Spec2Model ----
(***************************************************************************)
(* A model of the type-level decision procedures of magic-ts.              *)
(*                                                                         *)
(* A type is kept in union normal form: a set of union members, each       *)
(* member a set of object shapes that are intersected, each shape a        *)
(* function from field names to field types.  The bottom type never is     *)
(* the empty union.  A type function of the library is an operator over    *)
(* such types; the state machine draws the operands once and then applies  *)
(* one type function per step, recording which one and what it returned.   *)
(***************************************************************************)
EXTENDS Naturals, FiniteSets, Sequences

\* Largest number of shapes joined in one union operand.
MaxUnion == 2
\* Largest number of shapes met in one intersection operand.
MaxIntersection == 2

----------------------------------------------------------------------------
(* Field types and shapes *)

\* The key to use to brand a type's truthhood.
TruthhoodBrandKey == "__truthhood"

\* String literal types, used as brand names.
LiteralTypes ==
  {"'true'", "'false'", "'None'", "'SimpleBrandedType'", "'CustomBrandedType'"}

\* Field names and the primitive types a field of an operand shape may have.
FieldNames == {"a", "b"}
FieldTypes(k) == IF k = "a" THEN {"string", "number"} ELSE {"number"}

\* x extends y for field types: identical, bottom, or a literal of string.
FieldExtends(x, y) ==
  \/ x = y
  \/ x = "never"
  \/ (x \in LiteralTypes /\ y = "string")

\* The type of a property declared with each type of xs in an intersection.
FieldMeet(xs) ==
  IF \E x \in xs : \A y \in xs : FieldExtends(x, y)
    THEN CHOOSE x \in xs : \A y \in xs : FieldExtends(x, y)
    ELSE "never"

\* The empty object type {}.
EmptyShape == [k \in {} |-> "never"]

\* The object shapes operands are built from.
Shapes ==
  UNION { { s \in [D -> {"string", "number"}] : \A k \in D : s[k] \in FieldTypes(k) }
          : D \in SUBSET FieldNames }

----------------------------------------------------------------------------
(* Types *)

Never == {}
Plain(s) == {{s}}
Union(T, U) == T \cup U
\* Intersection distributes over the members of both operands.
Intersection(T, U) == { m \cup n : m \in T, n \in U }

\* T & { [K in Key]: Name }
Brand(T, Name, Key) == Intersection(T, Plain([k \in {Key} |-> Name]))

True == Brand(Plain(EmptyShape), "'true'", TruthhoodBrandKey)
False == Brand(Plain(EmptyShape), "'false'", TruthhoodBrandKey)
Any == Union(False, True)

\* The properties of an intersection of shapes: a field declared by several
\* of them has the meet of its declared types.
Props(m) ==
  [k \in UNION { DOMAIN s : s \in m } |->
     FieldMeet({ s[k] : s \in { x \in m : k \in DOMAIN x } })]

\* Assignability of one union member (an intersection of shapes) to a shape,
\* to an intersection of shapes, and to a union.
ExtendsShape(m, s) ==
  \A k \in DOMAIN s : k \in DOMAIN Props(m) /\ FieldExtends(Props(m)[k], s[k])
ExtendsMember(m, n) == \A s \in n : ExtendsShape(m, s)
Extends(m, U) == \E n \in U : ExtendsMember(m, n)

\* Type identity, as the checker relates two deferred conditional types
\* "G extends T ? 1 : 2" and "G extends U ? 1 : 2": constituent by constituent,
\* in both directions.
IdenticalShape(s, t) == DOMAIN s = DOMAIN t /\ \A k \in DOMAIN s : s[k] = t[k]
IdenticalMember(m, n) ==
  /\ \A s \in m : \E t \in n : IdenticalShape(s, t)
  /\ \A t \in n : \E s \in m : IdenticalShape(s, t)
Identical(T, U) ==
  /\ \A m \in T : \E n \in U : IdenticalMember(m, n)
  /\ \A n \in U : \E m \in T : IdenticalMember(m, n)

----------------------------------------------------------------------------
(* Inheritance *)

\* IsExtensionOf with the test made on the whole of ExtendedType at once.
IsExtensionOf_Undistributed(ExtendedType, BaseType, OnTrue, OnFalse) ==
  IF \A m \in ExtendedType : Extends(m, BaseType) THEN OnTrue ELSE OnFalse

\* IsExtensionOf with the operands of "extends" exchanged.
IsExtensionOf_Swapped(ExtendedType, BaseType, OnTrue, OnFalse) ==
  UNION { IF Extends(m, ExtendedType) THEN OnTrue ELSE OnFalse : m \in BaseType }

\* IsExtensionOf with the two branches exchanged.
IsExtensionOf_Inverted(ExtendedType, BaseType, OnTrue, OnFalse) ==
  UNION { IF Extends(m, BaseType) THEN OnFalse ELSE OnTrue : m \in ExtendedType }

\* ExtendedType extends BaseType ? OnTrue : OnFalse, distributed over the
\* members of ExtendedType.
IsExtensionOf(ExtendedType, BaseType, OnTrue, OnFalse) ==
  UNION { IF Extends(m, BaseType) THEN OnTrue ELSE OnFalse : m \in ExtendedType }

\* IsEqual written as a plain "T extends U" test.
IsEqual_ByExtension(T, U, OnTrue, OnFalse) == IsExtensionOf(T, U, OnTrue, OnFalse)

IsEqual(T, U, OnTrue, OnFalse) == IF Identical(T, U) THEN OnTrue ELSE OnFalse

Equals(T, U, OnYes, OnNo) == IF Identical(T, U) THEN OnYes ELSE OnNo

\* IsExtensionOfStrict without the comparison against True.
IsExtensionOfStrict_Unstrict(ExtendedType, BaseType) ==
  IsExtensionOf(ExtendedType, BaseType, True, False)

IsExtensionOfStrict(ExtendedType, BaseType) ==
  IsEqual(IsExtensionOf(ExtendedType, BaseType, True, False), True, True, False)

\* T satisfies the constraint "extends Boolean.Any" of a Condition parameter.
IsCondition(T) == \A m \in T : Extends(m, Any)

----------------------------------------------------------------------------
(* Conditional, decided by equality *)

If(Condition, OnTrue, OnFalse) == IsEqual(Condition, True, OnTrue, OnFalse)

Or(A, B) == If(A, True, If(B, True, False))

\* And with the branches of Or.
And_AsOr(A, B, OnTrue, OnFalse) == If(A, OnTrue, If(B, OnTrue, OnFalse))

And(A, B, OnTrue, OnFalse) == If(A, If(B, OnTrue, OnFalse), OnFalse)

Not_Distributed(A) == UNION { IF Identical({m}, True) THEN False ELSE True : m \in A }
Not(A) == IsEqual(A, True, False, True)

Nand(A, B) == Not(And(A, B, True, False))

Xor(A, B) == Or(And(A, Not(B), True, False), And(Not(A), B, True, False))

----------------------------------------------------------------------------
(* Conditional, decided by extension *)

\* Condition extends True ? Then : Else, distributed over the members of
\* Condition.
If_Ternary(Condition, Then, Else) ==
  UNION { IF Extends(m, True) THEN Then ELSE Else : m \in Condition }

Conditional__If(Condition, OnTrue, OnFalse) ==
  IsExtensionOf(Condition, True, OnTrue, OnFalse)

Conditional__Or(Condition1, Condition2, OnTrue, OnFalse) ==
  Conditional__If(Condition1, OnTrue, Conditional__If(Condition2, OnTrue, OnFalse))

Conditional__And(Condition1, Condition2, OnTrue, OnFalse) ==
  Conditional__If(Condition1, Conditional__If(Condition2, OnTrue, OnFalse), OnFalse)

Conditional__Not(Condition, OnTrue, OnFalse) ==
  Conditional__If(Condition, OnFalse, OnTrue)

Conditional__Nand(Condition1, Condition2, OnTrue, OnFalse) ==
  Conditional__Not(Conditional__And(Condition1, Condition2, True, False),
                   OnTrue, OnFalse)

Conditional__Xor(Condition1, Condition2, OnTrue, OnFalse) ==
  Conditional__Or(
    Conditional__And(Condition1, Conditional__Not(Condition2, True, False), True, False),
    Conditional__And(Conditional__Not(Condition1, True, False), Condition2, True, False),
    OnTrue, OnFalse)

----------------------------------------------------------------------------
(* Inheritance, strict relations *)

\* IsSubTypeOf without the negation of the forward test.
IsSubTypeOf_Unnegated(MaybeSubType, MaybeSuperType, OnTrue, OnFalse) ==
  And(IsExtensionOf(MaybeSubType, MaybeSuperType, True, False),
      IsExtensionOf(MaybeSuperType, MaybeSubType, True, False),
      OnTrue, OnFalse)

IsSubTypeOf(MaybeSubType, MaybeSuperType, OnTrue, OnFalse) ==
  And(Not(IsExtensionOf(MaybeSubType, MaybeSuperType, True, False)),
      IsExtensionOf(MaybeSuperType, MaybeSubType, True, False),
      OnTrue, OnFalse)

IsSuperTypeOf(MaybeSuperType, MaybeSubType, OnTrue, OnFalse) ==
  And(Not(IsExtensionOf(MaybeSuperType, MaybeSubType, True, False)),
      IsExtensionOf(MaybeSubType, MaybeSuperType, True, False),
      OnTrue, OnFalse)

IsParentOf(T, U) ==
  And(IsExtensionOf(U, T, True, False), Not(IsExtensionOf(T, U, True, False)),
      True, False)

IsChildOf(T, U) == IsParentOf(U, T)

----------------------------------------------------------------------------
(* Operands *)

UnionTypes ==
  { UNION { Plain(s) : s \in ss }
    : ss \in { x \in SUBSET Shapes : Cardinality(x) >= 1 /\ Cardinality(x) <= MaxUnion } }
IntersectionTypes ==
  { {ss} : ss \in { x \in SUBSET Shapes : Cardinality(x) >= 2
                                           /\ Cardinality(x) <= MaxIntersection } }
Types == {Never, True, False, Any} \cup UnionTypes \cup IntersectionTypes

\* The shapes of the documentation's examples.
ShapeA == [a |-> "string"]
ShapeB == [b |-> "number"]
AorB == Union(Plain(ShapeA), Plain(ShapeB))
AandB == Intersection(Plain(ShapeA), Plain(ShapeB))

\* The outcome pairs a caller passes: the defaults, or two types of its own.
Outcomes ==
  { <<True, False>>,
    <<Plain([a |-> "string"]), Plain([b |-> "number"])>> }

----------------------------------------------------------------------------
(* State machine *)

VARIABLES t, u, onTrue, onFalse, struct1, struct2, keys, tuple1, tuple2,
          pending, unfoldings, op, res
vars ==
  <<t, u, onTrue, onFalse, struct1, struct2, keys, tuple1, tuple2,
    pending, unfoldings, op, res>>

\* The struct with no field, and the operands a function does not take.
EmptyStruct == [k \in {} |-> Never]
NoStructs == struct1 = EmptyStruct /\ struct2 = EmptyStruct /\ keys = Never

\* No tuple among the operands, and no instantiation waiting to be unfolded.
NoUnfolding == pending = {} /\ unfoldings = 0
NoTuples == tuple1 = <<>> /\ tuple2 = <<>> /\ NoUnfolding

Init ==
  /\ t \in Types
  /\ u \in Types
  /\ \E o \in Outcomes : onTrue = o[1] /\ onFalse = o[2]
  /\ NoStructs
  /\ NoTuples
  /\ op = "none"
  /\ res = Never

\* No type function has been applied yet.
Idle == op = "none"

Return(name, value) ==
  /\ op' = name
  /\ res' = value
  /\ UNCHANGED <<t, u, onTrue, onFalse, struct1, struct2, keys>>
  /\ UNCHANGED <<tuple1, tuple2, pending, unfoldings>>

ApplyIsEqual == Idle /\ Return("IsEqual", IsEqual(t, u, onTrue, onFalse))
ApplyEquals == Idle /\ Return("Equals", Equals(t, u, onTrue, onFalse))
ApplyIsExtensionOf == Idle /\ Return("IsExtensionOf", IsExtensionOf(t, u, onTrue, onFalse))
ApplyIsExtensionOfStrict == Idle /\ Return("IsExtensionOfStrict", IsExtensionOfStrict(t, u))
ApplyIsSubTypeOf == Idle /\ Return("IsSubTypeOf", IsSubTypeOf(t, u, onTrue, onFalse))
ApplyIsSuperTypeOf == Idle /\ Return("IsSuperTypeOf", IsSuperTypeOf(t, u, onTrue, onFalse))
ApplyIsParentOf == Idle /\ Return("IsParentOf", IsParentOf(t, u))
ApplyIsChildOf == Idle /\ Return("IsChildOf", IsChildOf(t, u))

\* The Conditional functions take operands that satisfy "extends Boolean.Any".
ApplyIf == Idle /\ IsCondition(t) /\ Return("If", If(t, onTrue, onFalse))
ApplyOr == Idle /\ IsCondition(t) /\ IsCondition(u) /\ Return("Or", Or(t, u))
ApplyAnd ==
  Idle /\ IsCondition(t) /\ IsCondition(u) /\ Return("And", And(t, u, onTrue, onFalse))
ApplyNot == Idle /\ IsCondition(t) /\ Return("Not", Not(t))
ApplyNand == Idle /\ IsCondition(t) /\ IsCondition(u) /\ Return("Nand", Nand(t, u))
ApplyXor == Idle /\ IsCondition(t) /\ IsCondition(u) /\ Return("Xor", Xor(t, u))

ApplyIf_Ternary ==
  Idle /\ IsCondition(t) /\ Return("If_Ternary", If_Ternary(t, onTrue, onFalse))
ApplyConditional__If ==
  Idle /\ IsCondition(t) /\ Return("Conditional__If", Conditional__If(t, onTrue, onFalse))
ApplyConditional__Or ==
  /\ Idle /\ IsCondition(t) /\ IsCondition(u)
  /\ Return("Conditional__Or", Conditional__Or(t, u, onTrue, onFalse))
ApplyConditional__And ==
  /\ Idle /\ IsCondition(t) /\ IsCondition(u)
  /\ Return("Conditional__And", Conditional__And(t, u, onTrue, onFalse))
ApplyConditional__Not ==
  Idle /\ IsCondition(t) /\ Return("Conditional__Not", Conditional__Not(t, onTrue, onFalse))
ApplyConditional__Nand ==
  /\ Idle /\ IsCondition(t) /\ IsCondition(u)
  /\ Return("Conditional__Nand", Conditional__Nand(t, u, onTrue, onFalse))
ApplyConditional__Xor ==
  /\ Idle /\ IsCondition(t) /\ IsCondition(u)
  /\ Return("Conditional__Xor", Conditional__Xor(t, u, onTrue, onFalse))

Next ==
  \/ ApplyIsEqual
  \/ ApplyEquals
  \/ ApplyIsExtensionOf
  \/ ApplyIsExtensionOfStrict
  \/ ApplyIsSubTypeOf
  \/ ApplyIsSuperTypeOf
  \/ ApplyIsParentOf
  \/ ApplyIsChildOf
  \/ ApplyIf
  \/ ApplyOr
  \/ ApplyAnd
  \/ ApplyNot
  \/ ApplyNand
  \/ ApplyXor
  \/ ApplyIf_Ternary
  \/ ApplyConditional__If
  \/ ApplyConditional__Or
  \/ ApplyConditional__And
  \/ ApplyConditional__Not
  \/ ApplyConditional__Nand
  \/ ApplyConditional__Xor

Spec == Init /\ [][Next]_vars

----------------------------------------------------------------------------
(* None *)

BrandKey == "__brand"
None == Brand(Plain(EmptyShape), "'None'", BrandKey)

\* null and undefined are unit types: each is identical to itself alone, which
\* the shape with the one field that names it is.
Null == Plain([__primitive |-> "null"])
Undefined == Plain([__primitive |-> "undefined"])
NilTypes == Union(Never, Union(Null, Undefined))

\* The shape of an exception; its context field holds a type.  The backquotes
\* of the messages are written as quotes.
Exception(Message, Context) ==
  Plain([__message |-> "Exception: " \o Message, __context |-> Context])

\* T satisfies the constraint "extends Bound" of a type parameter.
Satisfies(T, Bound) == \A m \in T : Extends(m, Bound)

FromNull_Dollar(T) == Equals(T, Null, None, Exception("T does not equal 'null'", T))

FromUndefined_Dollar_AsNull(T) ==
  Equals(T, Null, None, Exception("T does not equal 'undefined'", T))
FromUndefined_Dollar(T) ==
  Equals(T, Undefined, None, Exception("T does not equal 'undefined'", T))

FromNever_Dollar(T) == Equals(T, Never, None, Exception("T does not equal 'never'", T))

FromNever(T) == Equals(T, Never, None, T)

FromNilType(T) ==
  Equals(T, Null, None,
    Equals(T, Undefined, None,
      Equals(T, Never, None,
        Exception("T does not equal 'null', 'undefined', or 'never'", T))))

GetOrDefault_ByExtension(T, Default) == IsExtensionOf(T, None, Default, T)
GetOrDefault(T, Default) == Equals(T, None, Default, T)
GetOrDefaultW(T, Default) == Equals(T, None, Default, T)

----------------------------------------------------------------------------
(* Struct keys and values *)

\* A struct is a function from its keys to the types of its fields; a union
\* of key literals is the set of those keys, and never is the empty one.
KeysOf(T) == DOMAIN T

\* T[K]: the union of the fields the keys of K select.
Index(T, K) == UNION { T[k] : k \in K \cap DOMAIN T }

Get_WithoutDefault(TStruct, Key, Default) ==
  UNION { IF k \in KeysOf(TStruct) THEN TStruct[k] ELSE Never : k \in Key }
Get(TStruct, Key, Default) ==
  UNION { IF k \in KeysOf(TStruct) THEN TStruct[k] ELSE Default : k \in Key }

ValuesOf(T) == Index(T, KeysOf(T))

\* Key extends keyof TStruct, distributed over the keys of Key.
IsKeyOf(TStruct, Key, OnTrue, OnFalse) ==
  UNION { IF k \in KeysOf(TStruct) THEN OnTrue ELSE OnFalse : k \in Key }

\* A mapped type over the keys, indexed by the same keys, is the union of
\* what each key maps to.
KeysThatMapToValue(TStruct, Value) ==
  UNION { IsExtensionOf(Get(TStruct, {Key}, Never), Value, {Key}, Never)
          : Key \in KeysOf(TStruct) }

KeysUnion(T, U) == KeysOf(T) \cup KeysOf(U)

KeysFilterToSameType(TStruct1, TStruct2, Keys) ==
  UNION { IsEqual(Get(TStruct1, {Key}, Never), Get(TStruct2, {Key}, Never), {Key}, Never)
          : Key \in Keys }

KeysIntersection(TStruct1, TStruct2) ==
  UNION { IF Key \in KeysOf(TStruct1)
            THEN (IF Key \in KeysOf(TStruct2) THEN {Key} ELSE Never)
            ELSE Never
          : Key \in KeysUnion(TStruct1, TStruct2) }

KeysDifference_Symmetric(TStruct, U) ==
  UNION { If(Xor(IsKeyOf(TStruct, {K}, True, False), IsKeyOf(U, {K}, True, False)),
             {K}, Never)
          : K \in KeysUnion(TStruct, U) }
KeysDifference(TStruct, U) ==
  UNION { And(IsKeyOf(TStruct, {K}, True, False),
              Not(IsKeyOf(U, {K}, True, False)), {K}, Never)
          : K \in KeysUnion(TStruct, U) }

----------------------------------------------------------------------------
(* Object keys: the same functions as the Object module writes them *)

And_Ternary(A, B) == If_Ternary(A, If_Ternary(B, True, False), False)
Not_Ternary(A) == UNION { IF Extends(m, True) THEN False ELSE True : m \in A }

KeyExists(T, K) == UNION { IF k \in KeysOf(T) THEN True ELSE False : k \in K }

Object__KeysFilterToSameType(T, U, Keys) ==
  UNION { If_Ternary(KeyExists(T, {K}),
                     If_Ternary(KeyExists(U, {K}),
                                Equals(Index(T, {K}), Index(U, {K}), {K}, Never),
                                Never),
                     Never)
          : K \in Keys }

Object__KeysUnion(T, U) == KeysOf(T) \cup KeysOf(U)

Object__KeysIntersection(T, U) ==
  UNION { If_Ternary(And_Ternary(KeyExists(T, {K}), KeyExists(U, {K})), {K}, Never)
          : K \in Object__KeysUnion(T, U) }

Object__KeysIntersectionStrict(T, U) ==
  Object__KeysFilterToSameType(T, U, Object__KeysIntersection(T, U))

Object__KeysDifference(T, U) ==
  UNION { If_Ternary(And_Ternary(KeyExists(T, {K}), Not_Ternary(KeyExists(U, {K}))),
                     {K}, Never)
          : K \in Object__KeysUnion(T, U) }

Object__KeysDifferenceStrict(T, U) ==
  Object__KeysFilterToSameType(T, U, Object__KeysDifference(T, U))

----------------------------------------------------------------------------
(* State machine of the struct functions *)

StructKeys == {"x", "y"}

\* The types of a field: a shape, a shape that extends it, a union of shapes,
\* and never.
ValueTypes == {Plain(ShapeA), Plain([a |-> "string", b |-> "number"]), AorB, Never}

Structs == UNION { [D -> ValueTypes] : D \in SUBSET StructKeys }

InitStruct ==
  /\ struct1 \in Structs
  /\ struct2 \in Structs
  /\ keys \in SUBSET StructKeys
  /\ u \in ValueTypes
  /\ t = Never
  /\ NoTuples
  /\ onTrue = True
  /\ onFalse = False
  /\ op = "none"
  /\ res = Never

ApplyGet == Idle /\ Return("Get", Get(struct1, keys, u))
ApplyValuesOf == Idle /\ Return("ValuesOf", ValuesOf(struct1))
ApplyKeysThatMapToValue ==
  Idle /\ Return("KeysThatMapToValue", KeysThatMapToValue(struct1, u))
\* Keys is constrained to extend KeysUnion of the two structs.
ApplyKeysFilterToSameType ==
  /\ Idle
  /\ keys \subseteq KeysUnion(struct1, struct2)
  /\ Return("KeysFilterToSameType", KeysFilterToSameType(struct1, struct2, keys))
ApplyKeysUnion == Idle /\ Return("KeysUnion", KeysUnion(struct1, struct2))
ApplyKeysIntersection ==
  Idle /\ Return("KeysIntersection", KeysIntersection(struct1, struct2))
ApplyKeysDifference == Idle /\ Return("KeysDifference", KeysDifference(struct1, struct2))
ApplyObject__KeysIntersectionStrict ==
  /\ Idle
  /\ Return("Object__KeysIntersectionStrict",
            Object__KeysIntersectionStrict(struct1, struct2))
ApplyObject__KeysDifferenceStrict ==
  /\ Idle
  /\ Return("Object__KeysDifferenceStrict",
            Object__KeysDifferenceStrict(struct1, struct2))

NextStruct ==
  \/ ApplyGet
  \/ ApplyValuesOf
  \/ ApplyKeysThatMapToValue
  \/ ApplyKeysFilterToSameType
  \/ ApplyKeysUnion
  \/ ApplyKeysIntersection
  \/ ApplyKeysDifference
  \/ ApplyObject__KeysIntersectionStrict
  \/ ApplyObject__KeysDifferenceStrict

SpecStruct == InitStruct /\ [][NextStruct]_vars

----------------------------------------------------------------------------
(* State machine of the None functions *)

\* A shape branded as None is: it extends None and is not None.
NoneWithA == Brand(Plain(ShapeA), "'None'", BrandKey)

NilInputs ==
  { Never, Null, Undefined, Union(Null, Undefined), None, Union(None, Null),
    Union(None, Plain(ShapeA)), NoneWithA, Plain(ShapeA), AorB, True }

NilDefaults == { Never, None, NoneWithA, Plain(ShapeA) }

InitNone ==
  /\ t \in NilInputs
  /\ u \in NilDefaults
  /\ onTrue = True
  /\ onFalse = False
  /\ NoStructs
  /\ NoTuples
  /\ op = "none"
  /\ res = Never

ApplyFromNull_Dollar == Idle /\ Return("FromNull$", FromNull_Dollar(t))
ApplyFromUndefined_Dollar == Idle /\ Return("FromUndefined$", FromUndefined_Dollar(t))
ApplyFromNever_Dollar == Idle /\ Return("FromNever$", FromNever_Dollar(t))
ApplyFromNever == Idle /\ Return("FromNever", FromNever(t))
ApplyFromNilType == Idle /\ Satisfies(t, NilTypes) /\ Return("FromNilType", FromNilType(t))
ApplyGetOrDefault == Idle /\ Satisfies(u, t) /\ Return("GetOrDefault", GetOrDefault(t, u))
ApplyGetOrDefaultW == Idle /\ Return("GetOrDefaultW", GetOrDefaultW(t, u))

NextNone ==
  \/ ApplyFromNull_Dollar
  \/ ApplyFromUndefined_Dollar
  \/ ApplyFromNever_Dollar
  \/ ApplyFromNever
  \/ ApplyFromNilType
  \/ ApplyGetOrDefault
  \/ ApplyGetOrDefaultW

SpecNone == InitNone /\ [][NextNone]_vars

----------------------------------------------------------------------------
(* Brand and Unbrand *)

\* A member matches U & {[K in Key]: Name}, U and Name to be inferred, when
\* it has the field Key and the field's type is a string.
HasBrand(m, Key) == Key \in DOMAIN Props(m) /\ FieldExtends(Props(m)[Key], "string")

\* The inference of U against the intersection takes the whole of the member:
\* with Name still to be inferred no constituent of the pattern is identical
\* to a constituent of the member, so none is set aside before U is inferred.
InferU(m, Key) == {m}

Brand__Unbrand(T, Key, Default) ==
  UNION { IF HasBrand(m, Key) THEN InferU(m, Key) ELSE Default : m \in T }

Unbrand(T, Key) ==
  UNION { IF HasBrand(m, Key) THEN InferU(m, Key) ELSE {m} : m \in T }

\* The names and keys of the documentation's examples, and a key that a shape
\* may have already.
BrandNames == {"'SimpleBrandedType'", "'CustomBrandedType'"}
BrandKeys == {BrandKey, "__CustomKey", "a"}

InitBrand ==
  /\ t \in Types
  /\ u = Never
  /\ onTrue = True
  /\ onFalse = False
  /\ struct1 = EmptyStruct
  /\ struct2 = EmptyStruct
  /\ keys \in { {k} : k \in BrandKeys }
  /\ NoTuples
  /\ op = "none"
  /\ res = Never

Branded == op = "Brand"

ApplyBrand ==
  /\ Idle
  /\ \E Name \in BrandNames : \E Key \in keys : Return("Brand", Brand(t, Name, Key))
ApplyBrand__Unbrand ==
  /\ Branded
  /\ \E Key \in keys : Return("Brand__Unbrand", Brand__Unbrand(res, Key, Never))
ApplyUnbrand ==
  /\ Branded
  /\ \E Key \in keys : Return("Unbrand", Unbrand(res, Key))

NextBrand ==
  \/ ApplyBrand
  \/ ApplyBrand__Unbrand
  \/ ApplyUnbrand

SpecBrand == InitBrand /\ [][NextBrand]_vars

----------------------------------------------------------------------------
(* Predicates: IsException, Assert, IsLeafValue *)

\* A member matches Exception<infer Message, infer Context> when it has a
\* message that begins as the template literal does, and a context.
MessagePrefix == "Exception: "
MatchesException(m) ==
  /\ \E s \in m : /\ "__message" \in DOMAIN s
                  /\ Len(s["__message"]) >= Len(MessagePrefix)
                  /\ SubSeq(s["__message"], 1, Len(MessagePrefix)) = MessagePrefix
  /\ \E s \in m : "__context" \in DOMAIN s

IsException(T) == UNION { IF MatchesException(m) THEN True ELSE False : m \in T }

TryCatch(Operation, OnException) ==
  UNION { IF MatchesException(m) THEN OnException ELSE {m} : m \in Operation }

Assert__IsTrue(Test, OnTrue, OnFalse) == IsEqual(Test, True, OnTrue, OnFalse)
Assert__IsFalse(Test, OnTrue, OnFalse) == IsEqual(Test, False, OnTrue, OnFalse)
Assert__True(T) == T
Assert__False(T) == T

\* Any struct is {}; the strictly empty struct is the record of every key to
\* never, a type identical to itself alone.
Struct__Any == Plain(EmptyShape)
Struct__Empty == Plain([__index |-> "never"])

IsLeafValue(T) ==
  And(IsExtensionOf(T, Struct__Any, True, False),
      Not(IsEqual(T, Struct__Empty, True, False)), True, False)

\* The primitives and a function: each extends {} and itself, and no shape
\* that has a field.
Primitive(name) == Plain([__primitive |-> name])
String == Primitive("string")
Number == Primitive("number")
Boolean == Union(Primitive("true"), Primitive("false"))
Function == Primitive("() => void")
LeafTypes == {String, Number, Boolean, Function}

\* What the conversions of None return, an exception in a union, and a shape
\* that has the fields of an exception and another message.
ExceptionTypes ==
  { FromNull_Dollar(T) : T \in NilInputs } \cup { FromNever_Dollar(T) : T \in NilInputs }
    \cup { Union(Exception("Truth assertion failed", False), None),
           Plain([__message |-> "string", __context |-> Never]) }

InitPredicate ==
  /\ t \in Types \cup LeafTypes \cup ExceptionTypes \cup {None, Struct__Empty}
  /\ u = Never
  /\ \E o \in Outcomes : onTrue = o[1] /\ onFalse = o[2]
  /\ NoStructs
  /\ NoTuples
  /\ op = "none"
  /\ res = Never

ApplyIsException == Idle /\ Return("IsException", IsException(t))
ApplyTryCatch == Idle /\ Return("TryCatch", TryCatch(t, onTrue))
\* Test is constrained to extend the marker asserted.
ApplyAssert__IsTrue ==
  /\ Idle
  /\ Satisfies(t, True)
  /\ Return("Assert__IsTrue", Assert__IsTrue(t, onTrue, onFalse))
ApplyAssert__IsFalse ==
  /\ Idle
  /\ Satisfies(t, False)
  /\ Return("Assert__IsFalse", Assert__IsFalse(t, onTrue, onFalse))
ApplyAssert__True == Idle /\ Satisfies(t, True) /\ Return("Assert__True", Assert__True(t))
ApplyAssert__False ==
  Idle /\ Satisfies(t, False) /\ Return("Assert__False", Assert__False(t))
ApplyIsLeafValue == Idle /\ Return("IsLeafValue", IsLeafValue(t))

NextPredicate ==
  \/ ApplyIsException
  \/ ApplyTryCatch
  \/ ApplyAssert__IsTrue
  \/ ApplyAssert__IsFalse
  \/ ApplyAssert__True
  \/ ApplyAssert__False
  \/ ApplyIsLeafValue

SpecPredicate == InitPredicate /\ [][NextPredicate]_vars

----------------------------------------------------------------------------
(* Tuples *)

\* A tuple is the sequence of the types of its elements.  T extends
\* [infer Head, ...infer Tail] holds of the tuples with an element, and
\* T extends [infer Head] of the tuples with exactly one.
MatchesHeadAndTail(T) == Len(T) >= 1
MatchesHeadAlone(T) == Len(T) = 1

Tuple__Length(T) == Len(T)

Tuple__Head(T, Default) == IF MatchesHeadAndTail(T) THEN T[1] ELSE Default

Tuple__Tail(T, Default) ==
  IF MatchesHeadAndTail(T) THEN [i \in 1..(Len(T) - 1) |-> T[i + 1]] ELSE Default

\* The definition of the first part of the file.
Tuple__HasHead_Earlier(T, OnTrue, OnFalse) ==
  IF MatchesHeadAlone(T) THEN OnTrue ELSE OnFalse

\* The definition of the second part of the file.
Tuple__HasHead(T, OnTrue, OnFalse) ==
  IF MatchesHeadAlone(T)
    THEN OnTrue
    ELSE IF MatchesHeadAndTail(T) THEN OnTrue ELSE OnFalse

Tuple__HasTail(T, OnTrue, OnFalse) == IF MatchesHeadAndTail(T) THEN OnTrue ELSE OnFalse

RECURSIVE Tuple__Last(_, _)
Tuple__Last(T, Default) ==
  IF MatchesHeadAndTail(T)
    THEN Tuple__Last(Tuple__Tail(T, Never), Default)
    ELSE Tuple__Head(T, Default)

Tuple__Zip_Truncating(T1, T2) ==
  [i \in 1..(2 * (IF Len(T1) < Len(T2) THEN Len(T1) ELSE Len(T2))) |->
     IF i % 2 = 1 THEN T1[(i + 1) \div 2] ELSE T2[i \div 2]]
RECURSIVE Tuple__Zip(_, _)
Tuple__Zip(T1, T2) ==
  IF MatchesHeadAndTail(T1)
    THEN IF MatchesHeadAndTail(T2)
           THEN <<Tuple__Head(T1, Never), Tuple__Head(T2, Never)>>
                  \o Tuple__Zip(Tuple__Tail(T1, Never), Tuple__Tail(T2, Never))
           ELSE <<Tuple__Head(T1, Never)>> \o Tuple__Zip(Tuple__Tail(T1, Never), T2)
    ELSE IF MatchesHeadAndTail(T2)
           THEN <<Tuple__Head(T2, Never)>> \o Tuple__Zip(T1, Tuple__Tail(T2, Never))
           ELSE <<>>

Tuple__Pair_Swapped(T1, T2) ==
  [i \in 1..(IF Len(T1) < Len(T2) THEN Len(T1) ELSE Len(T2)) |-> <<T2[i], T1[i]>>]
RECURSIVE Tuple__Pair(_, _)
Tuple__Pair(T1, T2) ==
  IF MatchesHeadAndTail(T1)
    THEN IF MatchesHeadAndTail(T2)
           THEN << <<Tuple__Head(T1, Never), Tuple__Head(T2, Never)>> >>
                  \o Tuple__Pair(Tuple__Tail(T1, Never), Tuple__Tail(T2, Never))
           ELSE <<>>
    ELSE <<>>

----------------------------------------------------------------------------
(* State machine of the tuple functions *)

MaxLen == 3

\* A literal type, a unit type as null is.
Literal(name) == Plain([__primitive |-> name])
Elements == {Literal("1"), Literal("2"), Literal("3")}
Tuples == UNION { [1..n -> Elements] : n \in 0..MaxLen }

InitTuple ==
  /\ tuple1 \in Tuples
  /\ tuple2 \in Tuples
  /\ NoUnfolding
  /\ t = Never
  /\ u \in {Never, None}
  /\ onTrue = True
  /\ onFalse = False
  /\ NoStructs
  /\ op = "none"
  /\ res = Never

ApplyTuple__Head == Idle /\ Return("Tuple__Head", Tuple__Head(tuple1, u))
ApplyTuple__HasHead_Earlier ==
  /\ Idle
  /\ Return("Tuple__HasHead_Earlier", Tuple__HasHead_Earlier(tuple1, onTrue, onFalse))
ApplyTuple__HasHead ==
  Idle /\ Return("Tuple__HasHead", Tuple__HasHead(tuple1, onTrue, onFalse))
ApplyTuple__HasTail ==
  Idle /\ Return("Tuple__HasTail", Tuple__HasTail(tuple1, onTrue, onFalse))
ApplyTuple__Last == Idle /\ Return("Tuple__Last", Tuple__Last(tuple1, u))
ApplyTuple__Zip == Idle /\ Return("Tuple__Zip", Tuple__Zip(tuple1, tuple2))
ApplyTuple__Pair == Idle /\ Return("Tuple__Pair", Tuple__Pair(tuple1, tuple2))

NextTuple ==
  \/ ApplyTuple__Head
  \/ ApplyTuple__HasHead_Earlier
  \/ ApplyTuple__HasHead
  \/ ApplyTuple__HasTail
  \/ ApplyTuple__Last
  \/ ApplyTuple__Zip
  \/ ApplyTuple__Pair

SpecTuple == InitTuple /\ [][NextTuple]_vars

----------------------------------------------------------------------------
(* Unfolding of the recursive tuple functions *)

\* The instantiations of itself that one unfolding of a recursive function
\* asks for, each the pair of its tuple arguments (the second one empty for a
\* function of one tuple).  An instantiation is made once for given
\* arguments, so they form a set.
Tuple__Zip_Calls_Stuck(T1, T2) ==
  IF MatchesHeadAndTail(T1) \/ MatchesHeadAndTail(T2) THEN {<<T1, T2>>} ELSE {}
Tuple__Zip_Calls(T1, T2) ==
  IF MatchesHeadAndTail(T1)
    THEN IF MatchesHeadAndTail(T2)
           THEN {<<Tuple__Tail(T1, Never), Tuple__Tail(T2, Never)>>}
           ELSE {<<Tuple__Tail(T1, Never), T2>>}
    ELSE IF MatchesHeadAndTail(T2)
           THEN {<<T1, Tuple__Tail(T2, Never)>>}
           ELSE {}

Tuple__Pair_Calls(T1, T2) ==
  IF MatchesHeadAndTail(T1)
    THEN IF MatchesHeadAndTail(T2)
           THEN {<<Tuple__Tail(T1, Never), Tuple__Tail(T2, Never)>>}
           ELSE {}
    ELSE {}

\* The Head that Last ends with is no instantiation of Last.
Tuple__Last_Calls(T) ==
  IF MatchesHeadAndTail(T) THEN {<<Tuple__Tail(T, Never), <<>>>>} ELSE {}

Tuple__Map_Calls(T) ==
  IF MatchesHeadAndTail(T) THEN {<<Tuple__Tail(T, Never), <<>>>>} ELSE {}

\* Filter names its instantiation on the tail in both outcomes of IsEqual.
Tuple__Filter_Calls(T) ==
  IF MatchesHeadAndTail(T)
    THEN {<<Tuple__Tail(T, Never), <<>>>>} \cup {<<Tuple__Tail(T, Never), <<>>>>}
    ELSE {}

\* The unfoldings a run may count before it is cut off.
MaxUnfoldings == 2 * MaxLen + 2

OfTwoTuples == {"Tuple__Zip", "Tuple__Pair"}
OfOneTuple == {"Tuple__Last", "Tuple__Map", "Tuple__Filter"}

InitUnfold ==
  /\ op \in OfTwoTuples \cup OfOneTuple
  /\ tuple1 \in Tuples
  /\ tuple2 \in (IF op \in OfTwoTuples THEN Tuples ELSE {<<>>})
  /\ pending = {<<tuple1, tuple2>>}
  /\ unfoldings = 0
  /\ t = Never
  /\ u = Never
  /\ onTrue = True
  /\ onFalse = False
  /\ NoStructs
  /\ res = Never

Unfold(name, a, calls) ==
  /\ op = name
  /\ unfoldings < MaxUnfoldings
  /\ pending' = (pending \ {a}) \cup calls
  /\ unfoldings' = unfoldings + 1
  /\ UNCHANGED <<t, u, onTrue, onFalse, struct1, struct2, keys, tuple1, tuple2, op, res>>

UnfoldTuple__Zip ==
  \E a \in pending : Unfold("Tuple__Zip", a, Tuple__Zip_Calls(a[1], a[2]))
UnfoldTuple__Pair ==
  \E a \in pending : Unfold("Tuple__Pair", a, Tuple__Pair_Calls(a[1], a[2]))
UnfoldTuple__Last ==
  \E a \in pending : Unfold("Tuple__Last", a, Tuple__Last_Calls(a[1]))
UnfoldTuple__Map ==
  \E a \in pending : Unfold("Tuple__Map", a, Tuple__Map_Calls(a[1]))
UnfoldTuple__Filter ==
  \E a \in pending : Unfold("Tuple__Filter", a, Tuple__Filter_Calls(a[1]))

NextUnfold ==
  \/ UnfoldTuple__Zip
  \/ UnfoldTuple__Pair
  \/ UnfoldTuple__Last
  \/ UnfoldTuple__Map
  \/ UnfoldTuple__Filter

\* An instantiation that was asked for is unfolded in the end.
SpecUnfold == InitUnfold /\ [][NextUnfold]_vars /\ WF_vars(NextUnfold)

----------------------------------------------------------------------------
(* Vocabulary of the properties *)

\* The caller left OnTrue and OnFalse at their defaults.
Defaults == onTrue = True /\ onFalse = False

\* Every field of B is a field of A with the same type.
FieldsContain(A, B) == \A k \in DOMAIN B : k \in DOMAIN A /\ A[k] = B[k]

\* Neither shape's fields contain the other's.
Disjoint(A, B) == ~FieldsContain(A, B) /\ ~FieldsContain(B, A)

\* The tuple of the number literals [a, ..., b].
Numbers(ns) == [i \in 1..Len(ns) |-> Literal(ns[i])]

\* The smaller of two lengths.
Min(a, b) == IF a < b THEN a ELSE b

\* Instantiation b has no longer arguments than a, and a shorter one.
Shortens(b, a) ==
  /\ Len(b[1]) <= Len(a[1])
  /\ Len(b[2]) <= Len(a[2])
  /\ Len(b[1]) + Len(b[2]) < Len(a[1]) + Len(a[2])

\* The marker of a classical truth value.
Marker(b) == IF b THEN True ELSE False


----------------------------------------------------------------------------
(* Properties *)

\* C1: IsEqual(T, U, OnTrue, OnFalse) (and its copy Equals) returns exactly one
\* of OnTrue / OnFalse, never their union: OnTrue when T and U are the same
\* type, a union whatever the order of its members included, and OnFalse
\* otherwise, as for IsEqual(A|B, A).
C1_IsEqualSingleOutcome ==
  op \in {"IsEqual", "Equals"} =>
    /\ res \in {onTrue, onFalse}
    /\ res # Union(onTrue, onFalse)
    /\ (t = u => res = onTrue)
    /\ (t # u => res = onFalse)
    /\ \A A, B \in Shapes :
         /\ (t = Union(Plain(A), Plain(B)) /\ u = Union(Plain(B), Plain(A))
               => res = onTrue)
         /\ (A # B /\ t = Union(Plain(A), Plain(B)) /\ u = Plain(A)
               => res = onFalse)

C1_Witness ==
  /\ op = "IsEqual"
  /\ t = AorB
  /\ u = Plain(ShapeA)
  /\ res = onFalse

\* C2: IsExtensionOf is evaluated once per member of a union ExtendedType and
\* the outcomes are unioned; for disjoint shapes A and B each member extends
\* A|B with outcome True, and A|B tested against a member yields True|False.
C2_UnionDistribution ==
  op = "IsExtensionOf" =>
    /\ res = UNION { IsExtensionOf({m}, u, onTrue, onFalse) : m \in t }
    /\ Defaults =>
         \A A, B \in Shapes :
           Disjoint(A, B) =>
             /\ (t = Plain(A) /\ u = Union(Plain(A), Plain(B)) => res = True)
             /\ (t = Plain(B) /\ u = Union(Plain(A), Plain(B)) => res = True)
             /\ (t = Union(Plain(A), Plain(B)) /\ u = Plain(A) => res = Any)
             /\ (t = Union(Plain(A), Plain(B)) /\ u = Plain(B) => res = Any)

C2_Witness ==
  /\ op = "IsExtensionOf"
  /\ Defaults
  /\ t = AorB
  /\ u = Plain(ShapeA)
  /\ res = Any

\* C3: IsExtensionOfStrict returns exactly one of True / False: True exactly
\* when IsExtensionOf is exactly True, and False wherever IsExtensionOf
\* returns the union True|False.
C3_StrictSingleOutcome ==
  op = "IsExtensionOfStrict" =>
    /\ res \in {True, False}
    /\ (res = True <=> IsExtensionOf(t, u, True, False) = True)
    /\ (IsExtensionOf(t, u, True, False) = Any => res = False)
    /\ \A A, B \in Shapes :
         Disjoint(A, B) /\ t = Union(Plain(A), Plain(B)) /\ u = Plain(A)
           => res = False

C3_Witness ==
  /\ op = "IsExtensionOfStrict"
  /\ t = AorB
  /\ u = Plain(ShapeA)
  /\ IsExtensionOf(t, u, True, False) = Any
  /\ res = False

\* C4: on operands drawn from {True, False}, And, Or, Not, Nand and Xor of
\* both Conditional modules return the classical truth-table value.
C4_TruthTables ==
  (t \in {True, False} /\ u \in {True, False} /\ Defaults) =>
    /\ op \in {"And", "Conditional__And"} => res = Marker(t = True /\ u = True)
    /\ op \in {"Or", "Conditional__Or"} => res = Marker(~(t = False /\ u = False))
    /\ op \in {"Not", "Conditional__Not"} => res = Marker(t = False)
    /\ op \in {"Nand", "Conditional__Nand"} => res = Not(And(t, u, True, False))
    /\ op \in {"Nand", "Conditional__Nand"} => res = Marker(~(t = True /\ u = True))
    /\ op \in {"Xor", "Conditional__Xor"} => res = Marker(t # u)

C4_Witness ==
  /\ op = "Xor"
  /\ t = True
  /\ u = False
  /\ res = True

\* C5: every definition of Conditional.If selects OnTrue only when Condition
\* is exactly True: If(True, X, Y) = X, If(False, X, Y) = Y, and for the union
\* condition True|False the result is Y alone.
C5_IfByEquality ==
  op \in {"If", "Conditional__If", "If_Ternary"} =>
    /\ (t = True => res = onTrue)
    /\ (t = False => res = onFalse)
    /\ (t = Any => res = onFalse)

\* C6: for disjoint shapes A and B, neither extends the other, each member
\* extends the union A|B, the intersection A&B extends the union, and the
\* union does not extend the intersection.
C6_DisjointShapes ==
  (op = "IsExtensionOf" /\ Defaults) =>
    \A A, B \in Shapes :
      Disjoint(A, B) =>
        /\ (t = Plain(A) /\ u = Plain(B) => res = False)
        /\ (t = Plain(A) /\ u = Union(Plain(A), Plain(B)) => res = True)
        /\ (t = Intersection(Plain(A), Plain(B)) /\ u = Union(Plain(A), Plain(B))
              => res = True)
        /\ (t = Union(Plain(A), Plain(B)) /\ u = Intersection(Plain(A), Plain(B))
              => res = False)

C6_Witness ==
  /\ op = "IsExtensionOf"
  /\ Defaults
  /\ t = AorB
  /\ u = AandB
  /\ res = False

\* C7: IsExtensionOf is reflexive: for every shape, union of shapes and
\* intersection of shapes T, IsExtensionOf(T, T) is exactly OnTrue.
C7_ExtensionReflexive ==
  (op = "IsExtensionOf" /\ t = u /\ t # Never) => res = onTrue

C7_Witness ==
  /\ op = "IsExtensionOf"
  /\ t = AorB
  /\ u = AorB
  /\ res = onTrue

\* C8: the strict relations are irreflexive: IsSubTypeOf(T, T),
\* IsSuperTypeOf(T, T), IsParentOf(T, T) and IsChildOf(T, T) are False for
\* every shape, union and intersection T.
C8_StrictIrreflexive ==
  t = u =>
    /\ op \in {"IsSubTypeOf", "IsSuperTypeOf"} => res = onFalse
    /\ op \in {"IsParentOf", "IsChildOf"} => res = False

C8_Witness ==
  /\ op = "IsSubTypeOf"
  /\ t = AandB
  /\ u = AandB
  /\ res = onFalse

\* C9: for disjoint shapes A and B a member of the union is a sub type of the
\* union, IsSubTypeOf(A, A|B) = True, and the union is not a sub type of a
\* member, IsSubTypeOf(A|B, A) = False.
C9_UnionSubTypes ==
  (op = "IsSubTypeOf" /\ Defaults) =>
    \A A, B \in Shapes :
      Disjoint(A, B) =>
        /\ (t = Plain(A) /\ u = Union(Plain(A), Plain(B)) => res = True)
        /\ (t = Union(Plain(A), Plain(B)) /\ u = Plain(A) => res = False)

\* C10: IsSuperTypeOf is the converse of IsSubTypeOf: IsSuperTypeOf(P, S) is
\* IsSubTypeOf(S, P), True exactly when P extends S and S does not extend P.
C10_SuperIsConverseOfSub ==
  op = "IsSuperTypeOf" =>
    /\ res = IsSubTypeOf(u, t, onTrue, onFalse)
    /\ res = onTrue <=>
         /\ IsExtensionOf(t, u, True, False) = True
         /\ IsExtensionOf(u, t, True, False) # True

\* C11: a union is never a parent or child of any of its members: for disjoint
\* shapes A, B and C = A|B, IsParentOf and IsChildOf of (C, A), (C, B), (A, C)
\* and (B, C) are all False.
C11_UnionNeverParentOrChild ==
  op \in {"IsParentOf", "IsChildOf"} =>
    \A A, B \in Shapes :
      Disjoint(A, B) =>
        /\ (t = Union(Plain(A), Plain(B)) /\ u = Plain(A) => res = False)
        /\ (t = Plain(A) /\ u = Union(Plain(A), Plain(B)) => res = False)

\* C12: with the default outcomes, IsExtensionOf returns True, False or their
\* union for every ExtendedType and BaseType, the bottom type never included:
\* a non-empty subset of {True, False}.
C12_PredicateReturnsBoolean ==
  (op = "IsExtensionOf" /\ Defaults) => res \in {True, False, Any}

\* C13: KeysFilterToSameType(S1, S2, Keys) returns exactly the keys of Keys
\* that are present in S1 and in S2 with exactly equal field types: all of
\* Keys for identical structs, never when no key qualifies, and the same
\* result with S1 and S2 swapped.
C13_KeysFilterToSameType ==
  op = "KeysFilterToSameType" =>
    /\ res = { k \in keys : /\ k \in KeysOf(struct1)
                            /\ k \in KeysOf(struct2)
                            /\ Identical(struct1[k], struct2[k]) }
    /\ (struct1 = struct2 => res = keys)
    /\ res = KeysFilterToSameType(struct2, struct1, keys)

\* C14: KeysUnion, KeysIntersection and KeysDifference of two structs are the
\* set union, the set intersection and the set difference of their key sets,
\* whatever the types of the fields.
C14_KeySetAlgebra ==
  /\ op = "KeysUnion" => res = KeysOf(struct1) \cup KeysOf(struct2)
  /\ op = "KeysIntersection" => res = KeysOf(struct1) \cap KeysOf(struct2)
  /\ op = "KeysDifference" => res = KeysOf(struct1) \ KeysOf(struct2)

\* A difference that keeps one key and drops a shared one and one of U only.
C14_Witness ==
  /\ op = "KeysDifference"
  /\ KeysOf(struct1) = {"x", "y"}
  /\ KeysOf(struct2) = {"y"}
  /\ struct1["y"] # struct2["y"]
  /\ res = {"x"}

\* C15: KeysDifferenceStrict(T, U) returns keys of T that are not keys of U,
\* and some key whenever T has a key that U lacks; KeysIntersectionStrict(T, U)
\* never includes a key present in only one of T and U.
C15_StrictKeySelectors ==
  /\ op = "Object__KeysDifferenceStrict" =>
       /\ res \subseteq KeysOf(struct1) \ KeysOf(struct2)
       /\ (KeysOf(struct1) \ KeysOf(struct2) # {} => res # {})
  /\ op = "Object__KeysIntersectionStrict" =>
       res \subseteq KeysOf(struct1) \cap KeysOf(struct2)

\* C16: KeysThatMapToValue(S, V) is exactly the set of keys k of S whose field
\* type extends V as a whole, that is for which IsExtensionOf(S[k], V) is
\* exactly True.
C16_KeysThatMapToValue ==
  op = "KeysThatMapToValue" =>
    res = { k \in KeysOf(struct1) : IsExtensionOf(struct1[k], u, True, False) = True }

\* C17: ValuesOf(T) is the union of the field types of T, and the None marker
\* for a struct without keys.
C17_ValuesOf ==
  op = "ValuesOf" =>
    IF KeysOf(struct1) = {}
      THEN res = None
      ELSE res = UNION { struct1[k] : k \in KeysOf(struct1) }

\* C18: Get(S, Key, Default) returns S[Key] when Key is a key of S, and the
\* Default the caller passed (never when it passed none) when it is not.
C18_GetOrItsDefault ==
  op = "Get" =>
    \A k \in StructKeys :
      keys = {k} => res = IF k \in KeysOf(struct1) THEN struct1[k] ELSE u

\* A missing key with a Default of the caller's own.
C18_Witness ==
  /\ op = "Get"
  /\ keys = {"x"}
  /\ KeysOf(struct1) = {"y"}
  /\ u = Plain(ShapeA)
  /\ struct1["y"] = AorB
  /\ res = Plain(ShapeA)

\* C19: FromNilType turns null, undefined and never into None; FromNull$,
\* FromUndefined$ and FromNever$ each return None for exactly their own nil
\* type and, for every other input, the other nil types and unions of them
\* included, an Exception whose context is the input.
C19_NilConversions ==
  /\ (op = "FromNilType" /\ t \in {Null, Undefined, Never}) => res = None
  /\ op = "FromNull$" =>
       res = IF t = Null THEN None ELSE Exception("T does not equal 'null'", t)
  /\ op = "FromUndefined$" =>
       res = IF t = Undefined THEN None
             ELSE Exception("T does not equal 'undefined'", t)
  /\ op = "FromNever$" =>
       res = IF t = Never THEN None ELSE Exception("T does not equal 'never'", t)

\* FromUndefined$ given undefined answers None.
C19_Witness ==
  /\ op = "FromUndefined$"
  /\ t = Undefined
  /\ res = None

\* C20: GetOrDefault(T, Default) is Default when T is exactly None and T
\* itself otherwise, a union that contains None included.
C20_GetOrDefault ==
  op \in {"GetOrDefault", "GetOrDefaultW"} => res = IF t = None THEN u ELSE t

\* A union that contains None passes through GetOrDefault unchanged.
C20_Witness ==
  /\ op = "GetOrDefault"
  /\ t = Union(None, Plain(ShapeA))
  /\ u = NoneWithA
  /\ res = t

C22_ZipInterleaves ==
  /\ op = "Tuple__Zip" =>
       LET n == Min(Len(tuple1), Len(tuple2))
       IN  /\ Len(res) = Len(tuple1) + Len(tuple2)
           /\ \A i \in 1..n : res[2 * i - 1] = tuple1[i] /\ res[2 * i] = tuple2[i]
           /\ \A i \in (n + 1)..Len(tuple1) : res[n + i] = tuple1[i]
           /\ \A i \in (n + 1)..Len(tuple2) : res[n + i] = tuple2[i]
           /\ (tuple1 = <<>> => res = tuple2)
           /\ (tuple2 = <<>> => res = tuple1)
  /\ LET OneToSix == Numbers(<<"1", "2", "3", "4", "5", "6">>)
     IN  /\ Tuple__Zip(Numbers(<<"1", "3", "5">>), Numbers(<<"2", "4", "6">>)) = OneToSix
         /\ Tuple__Zip(Numbers(<<"1", "3">>), Numbers(<<"2", "4", "5", "6">>)) = OneToSix
         /\ Tuple__Zip(Numbers(<<"1", "3", "5", "6">>), Numbers(<<"2", "4">>)) = OneToSix

\* A shorter first tuple zipped with a longer second one.
C22_Witness ==
  /\ op = "Tuple__Zip"
  /\ tuple1 = Numbers(<<"1">>)
  /\ tuple2 = Numbers(<<"2", "3", "1">>)
  /\ res = Numbers(<<"1", "2", "3", "1">>)

\* C23: Pair(T1, T2) is the tuple of the pairs [T1[i], T2[i]], as long as the
\* shorter of T1 and T2, and [] when either is empty.
C23_PairTruncates ==
  op = "Tuple__Pair" =>
    /\ Len(res) = Min(Len(tuple1), Len(tuple2))
    /\ \A i \in 1..Len(res) : res[i] = <<tuple1[i], tuple2[i]>>
    /\ (tuple1 = <<>> \/ tuple2 = <<>> => res = <<>>)

\* A longer first tuple paired with a shorter second one.
C23_Witness ==
  /\ op = "Tuple__Pair"
  /\ tuple1 = Numbers(<<"1", "3", "2">>)
  /\ tuple2 = Numbers(<<"2", "1">>)
  /\ res = << <<Literal("1"), Literal("2")>>, <<Literal("3"), Literal("1")>> >>

\* C27: the two definitions of HasHead agree on every tuple, and both return
\* OnTrue exactly when the tuple has at least one element.
C27_HasHeadDefinitionsAgree ==
  op \in {"Tuple__HasHead", "Tuple__HasHead_Earlier"} =>
    /\ res = IF Len(tuple1) >= 1 THEN onTrue ELSE onFalse
    /\ Tuple__HasHead(tuple1, onTrue, onFalse)
         = Tuple__HasHead_Earlier(tuple1, onTrue, onFalse)

\* C28: Last(T, Default) is the final element of a tuple that has one, and
\* Default only for the empty tuple.
C28_LastElement ==
  op = "Tuple__Last" =>
    res = IF Len(tuple1) >= 1 THEN tuple1[Len(tuple1)] ELSE u

\* C29: the unfolding of Zip, Pair, Last, Map and Filter ends on every
\* finite tuple: each instantiation an unfolding asks for has a shorter
\* argument than the one unfolded and no longer one, Zip and Pair are unfolded
\* at most |T1| + |T2| + 1 times and Last, Map and Filter at most |T| + 1
\* times, and in the end nothing is left to unfold.
C29_UnfoldingTerminates ==
  /\ [](unfoldings <= Len(tuple1) + Len(tuple2) + 1)
  /\ [][\A b \in pending' \ pending : \E a \in pending \ pending' : Shortens(b, a)]_vars
  /\ <>(pending = {})

\* Zip has unfolded [1, 2] and [] as often as the bound allows.
C29_Witness ==
  /\ op = "Tuple__Zip"
  /\ tuple1 = Numbers(<<"1", "2">>)
  /\ tuple2 = <<>>
  /\ pending = {}
  /\ unfoldings = 3

\* C30: the equality-based And, Or, Not, Nand and Xor are closed over single
\* outcomes: on operands among True, False and True|False each returns True
\* or False alone, and the union True|False counts as False in every operand.
C30_ClosedOverSingleOutcomes ==
  (t \in {True, False, Any} /\ u \in {True, False, Any} /\ Defaults) =>
    /\ op \in {"And", "Or", "Not", "Nand", "Xor"} => res \in {True, False}
    /\ op = "And" => res = Marker(t = True /\ u = True)
    /\ op = "Or" => res = Marker(t = True \/ u = True)
    /\ op = "Not" => res = Marker(~(t = True))
    /\ op = "Nand" => res = Marker(~(t = True /\ u = True))
    /\ op = "Xor" => res = Marker((t = True) # (u = True))

\* Xor of True and the union True|False.
C30_Witness ==
  /\ op = "Xor"
  /\ t = True
  /\ u = Any
  /\ Defaults
  /\ res = True

\* C24: IsException(T) is True exactly when T has the shape of an Exception,
\* whatever its message and context, as what a failed conversion returns has,
\* and False for every other type, None and the ordinary shapes among them.
C24_IsExceptionDecides ==
  op = "IsException" =>
    /\ res = Marker(t # Never /\ \A m \in t : MatchesException(m))
    /\ (t \in { FromNull_Dollar(T) : T \in NilInputs \ {Null} } => res = True)
    /\ (t \in {None} \cup UnionTypes => res = False)

\* C25: an assertion is accepted only of the marker it expects: IsTrue of
\* exactly True, and then it yields True, and IsFalse of exactly False; the
\* other marker, the union True|False and never are rejected.
C25_AssertAcceptsTheMarkerOnly ==
  /\ op \in {"Assert__IsTrue", "Assert__True"} => t = True
  /\ op \in {"Assert__IsFalse", "Assert__False"} => t = False
  /\ (op \in {"Assert__IsTrue", "Assert__IsFalse"} /\ Defaults) => res = True

\* C26: IsLeafValue(T) is True of a value that is not a struct (string,
\* number, boolean, function) and False of a struct, the Empty struct and a
\* struct with fields alike.
C26_IsLeafValue ==
  op = "IsLeafValue" =>
    /\ (t \in LeafTypes => res = True)
    /\ (t \in {Struct__Empty} \cup { Plain(S) : S \in Shapes } => res = False)

====
